---- MODULE Spec2Model ----
(***************************************************************************)
(* A model of utils.py: greet_user, calculate_sum and the entry point      *)
(* main, with the callers that import the module.                          *)
(*                                                                         *)
(* Text is a sequence of one-character strings.  An Optional[str] is a     *)
(* record [some, text]; None is the value with some = FALSE, so that None  *)
(* and the empty text "" are different values.  A number is a record       *)
(* [type, cls, h]: type is "int" or "float", h is twice the value (floats  *)
(* of the model are the multiples of 1/2 up to FloatMax, a float format    *)
(* with a fixed step and a small range), cls tells a finite float from     *)
(* inf, -inf and nan.  Python's int is unbounded.                          *)
(***************************************************************************)
EXTENDS Integers, Sequences, FiniteSets, TLC

VARIABLES runAs, stdout, mainPc, args, frame, ret

vars == <<runAs, stdout, mainPc, args, frame, ret>>

---------------------------------------------------------------------------
(* Bounds of the model *)

MaxNameLen == 2
MaxSeqLen == 3
FloatMax == 2
NumCallers == 2

---------------------------------------------------------------------------
(* Values *)

Chars == {"a", "B", " "}

None == [some |-> FALSE, text |-> <<>>]
Some(t) == [some |-> TRUE, text |-> t]

PyInt(n) == [type |-> "int", cls |-> "finite", h |-> 2 * n]
PyFloat(h) == [type |-> "float", cls |-> "finite", h |-> h]
Inf == [type |-> "float", cls |-> "inf", h |-> 0]
NegInf == [type |-> "float", cls |-> "-inf", h |-> 0]
NaN == [type |-> "float", cls |-> "nan", h |-> 0]

Abs(n) == IF n < 0 THEN -n ELSE n

RECURSIVE SeqsUpTo(_, _)
SeqsUpTo(S, n) ==
    IF n = 0 THEN {<<>>}
    ELSE LET shorter == SeqsUpTo(S, n - 1)
         IN  shorter \cup {Append(s, x) : s \in shorter, x \in S}

---------------------------------------------------------------------------
(* greet_user *)

Hello == <<"H", "e", "l", "l", "o">>

\* mutant: the default of the parameter is the empty text
DefaultGreetingParamEmpty == Some(<<>>)

\* def greet_user(name, greeting: Optional[str] = None): the parameter's default
DefaultGreetingParam == None

\* a call site either passes the greeting argument or omits it
Omitted == [passed |-> FALSE, some |-> FALSE, text |-> <<>>]
Passed(g) == [passed |-> TRUE, some |-> g.some, text |-> g.text]

BindGreeting(garg) ==
    IF garg.passed THEN [some |-> garg.some, text |-> garg.text]
    ELSE DefaultGreetingParam

\* mutant: "if not greeting", which the empty text satisfies too
IsFalsy(g) == ~g.some \/ g.text = <<>>

\* greeting is None
IsNone(g) == ~g.some

RECURSIVE LStrip(_)
LStrip(t) == IF t # <<>> /\ Head(t) = " " THEN LStrip(Tail(t)) ELSE t

RECURSIVE RStrip(_)
RStrip(t) ==
    IF t # <<>> /\ t[Len(t)] = " " THEN RStrip(SubSeq(t, 1, Len(t) - 1)) ELSE t

\* mutant: the name is stripped of the blanks around it
FormatStripped(greeting, name) ==
    greeting \o <<",", " ">> \o RStrip(LStrip(name)) \o <<"!">>

\* f"{greeting}, {name}!"
Format(greeting, name) == greeting \o <<",", " ">> \o name \o <<"!">>

greet_user(name, garg) ==
    LET bound == BindGreeting(garg)
        greeting == IF IsNone(bound) THEN Some(Hello) ELSE bound
    IN  Format(greeting.text, name)

---------------------------------------------------------------------------
(* calculate_sum: the builtin sum, start value 0, result = result + item *)

\* mutant: the total starts from one
SumStartOne == PyInt(1)

SumStart == PyInt(0)

\* mutant: an int of any size converts (to an infinity), nothing is raised
CanConvertAlways(x) == TRUE

\* int -> float, as float.__add__ / float.__radd__ convert an int operand:
\* OverflowError when the int is beyond the finite floats
CanConvert(x) == x.type = "float" \/ Abs(x.h) <= 2 * FloatMax

ToFloat(x) == IF x.type = "float" THEN x ELSE PyFloat(x.h)

\* the float nearest to the exact value h/2; beyond the range it is an infinity
RoundFloat(h) ==
    IF h > 2 * FloatMax THEN Inf
    ELSE IF h < -(2 * FloatMax) THEN NegInf
    ELSE PyFloat(h)

FloatAdd(x, y) ==
    IF x.cls = "nan" \/ y.cls = "nan" THEN NaN
    ELSE IF x.cls = "finite" /\ y.cls = "finite" THEN RoundFloat(x.h + y.h)
    ELSE IF x.cls = "finite" THEN y
    ELSE IF y.cls = "finite" THEN x
    ELSE IF x.cls = y.cls THEN x
    ELSE NaN

Clamp(h, lim) == IF h > lim THEN lim ELSE IF h < -lim THEN -lim ELSE h

\* mutant: a fixed-width int total that saturates at its largest value
AddSaturating(a, b) ==
    IF a.type = "int" /\ b.type = "int"
    THEN [raised |-> FALSE,
          val |-> [type |-> "int", cls |-> "finite",
                   h |-> Clamp(a.h + b.h, 2 * (FloatMax + 1))]]
    ELSE IF CanConvert(a) /\ CanConvert(b)
    THEN [raised |-> FALSE, val |-> FloatAdd(ToFloat(a), ToFloat(b))]
    ELSE [raised |-> TRUE, val |-> a]

\* result + item: int + int is an int; a float operand makes the result a float
Add(a, b) ==
    IF a.type = "int" /\ b.type = "int"
    THEN [raised |-> FALSE, val |-> [type |-> "int", cls |-> "finite", h |-> a.h + b.h]]
    ELSE IF CanConvert(a) /\ CanConvert(b)
    THEN [raised |-> FALSE, val |-> FloatAdd(ToFloat(a), ToFloat(b))]
    ELSE [raised |-> TRUE, val |-> a]

RECURSIVE SumFrom(_, _, _)
SumFrom(acc, numbers, i) ==
    IF i > Len(numbers) THEN [raised |-> FALSE, val |-> acc]
    ELSE LET r == Add(acc, numbers[i])
         IN  IF r.raised THEN r ELSE SumFrom(r.val, numbers, i + 1)

calculate_sum(numbers) == SumFrom(SumStart, numbers, 1)

---------------------------------------------------------------------------
(* str() of a number, as an f-string formats it *)

DigitChar(d) == <<"0", "1", "2", "3", "4", "5", "6", "7", "8", "9">>[d + 1]

RECURSIVE Decimal(_)
Decimal(n) ==
    IF n < 10 THEN <<DigitChar(n)>>
    ELSE Decimal(n \div 10) \o <<DigitChar(n % 10)>>

IntStr(n) == IF n < 0 THEN <<"-">> \o Decimal(-n) ELSE Decimal(n)

FloatStr(x) ==
    IF x.cls = "nan" THEN <<"n", "a", "n">>
    ELSE IF x.cls = "inf" THEN <<"i", "n", "f">>
    ELSE IF x.cls = "-inf" THEN <<"-", "i", "n", "f">>
    ELSE (IF x.h < 0 THEN <<"-">> ELSE <<>>)
         \o Decimal(Abs(x.h) \div 2)
         \o <<".">>
         \o (IF x.h % 2 = 0 THEN <<"0">> ELSE <<"5">>)

NumStr(x) == IF x.type = "int" THEN IntStr(x.h \div 2) ELSE FloatStr(x)

---------------------------------------------------------------------------
(* The processes: main (run as a script) and the callers of the module *)

MainProc == 0
Callers == 1 .. NumCallers
Procs == {MainProc} \cup Callers

NoArgs == [fn |-> "none", name |-> <<>>, greeting |-> Omitted, numbers |-> <<>>]
GreetArgs(name, garg) ==
    [fn |-> "greet_user", name |-> name, greeting |-> garg, numbers |-> <<>>]
SumArgs(numbers) ==
    [fn |-> "calculate_sum", name |-> <<>>, greeting |-> Omitted, numbers |-> numbers]

IdleFrame == [pc |-> "idle", name |-> <<>>, greeting |-> None, i |-> 0, acc |-> PyInt(0)]
\* the parameters are bound to the frame's locals; the body starts at line 27
GreetFrame(name, garg) ==
    [pc |-> "line27", name |-> name, greeting |-> BindGreeting(garg),
     i |-> 0, acc |-> PyInt(0)]
\* numbers is a reference to the caller's list: the body reads args[p].numbers
SumFrame == [pc |-> "line48", name |-> <<>>, greeting |-> None, i |-> 0, acc |-> PyInt(0)]

FrameFor(a) == IF a.fn = "greet_user" THEN GreetFrame(a.name, a.greeting) ELSE SumFrame

NoRet == [kind |-> "none", text |-> <<>>, num |-> PyInt(0)]
TextRet(t) == [kind |-> "text", text |-> t, num |-> PyInt(0)]
NumRet(x) == [kind |-> "number", text |-> <<>>, num |-> x]
Raised == [kind |-> "OverflowError", text |-> <<>>, num |-> PyInt(0)]

\* what a call returns when it runs alone
Alone(a) ==
    IF a.fn = "greet_user" THEN TextRet(greet_user(a.name, a.greeting))
    ELSE LET r == calculate_sum(a.numbers)
         IN  IF r.raised THEN Raised ELSE NumRet(r.val)

---------------------------------------------------------------------------
(* Inputs *)

Names == SeqsUpTo(Chars, MaxNameLen)
GreetingArgs == {Omitted, Passed(None)} \cup {Passed(Some(t)) : t \in Names}

IntInputs == {PyInt(n) : n \in -(FloatMax + 1) .. (FloatMax + 1)}
FloatInputs == {PyFloat(-(2 * FloatMax)), PyFloat(-1), PyFloat(1), PyFloat(2 * FloatMax)}
NumberSeqs == SeqsUpTo(IntInputs \cup FloatInputs, MaxSeqLen)

ConcNames == {<<>>, <<"a">>}
ConcGreetingArgs == {Omitted, Passed(Some(<<>>)), Passed(Some(<<"B">>))}
ConcNumberSeqs == {<<>>, <<PyInt(1), PyInt(-2)>>, <<PyInt(1), PyFloat(1)>>}

---------------------------------------------------------------------------
(* Steps of greet_user in the frame of process p *)

\* line 27: if greeting is None
GreetTest(p) ==
    /\ frame[p].pc = "line27"
    /\ frame' = [frame EXCEPT ![p].pc =
                    IF IsNone(frame[p].greeting) THEN "line28" ELSE "line29"]
    /\ UNCHANGED <<runAs, stdout, mainPc, args, ret>>

\* mutant: greeting is a module-level name, one binding for every call
GreetDefaultGlobal(p) ==
    /\ frame[p].pc = "line28"
    /\ frame' = [q \in Procs |->
                    IF q = p
                    THEN [frame[q] EXCEPT !.greeting = Some(Hello), !.pc = "line29"]
                    ELSE [frame[q] EXCEPT !.greeting = Some(Hello)]]
    /\ UNCHANGED <<runAs, stdout, mainPc, args, ret>>

\* line 28: greeting = "Hello" rebinds the local
GreetDefault(p) ==
    /\ frame[p].pc = "line28"
    /\ frame' = [frame EXCEPT ![p].greeting = Some(Hello), ![p].pc = "line29"]
    /\ UNCHANGED <<runAs, stdout, mainPc, args, ret>>

\* line 29: return f"{greeting}, {name}!"; the frame is discarded
GreetReturn(p) ==
    /\ frame[p].pc = "line29"
    /\ ret' = [ret EXCEPT ![p] = TextRet(Format(frame[p].greeting.text, frame[p].name))]
    /\ frame' = [frame EXCEPT ![p] = IdleFrame]
    /\ UNCHANGED <<runAs, stdout, mainPc, args>>

---------------------------------------------------------------------------
(* Steps of calculate_sum in the frame of process p *)

\* line 48: sum(numbers) starts from 0 at the first item
SumBegin(p) ==
    /\ frame[p].pc = "line48"
    /\ frame' = [frame EXCEPT ![p].pc = "sum", ![p].i = 1, ![p].acc = SumStart]
    /\ UNCHANGED <<runAs, stdout, mainPc, args, ret>>

\* mutant: the loop takes each item off the caller's list
SumStepConsuming(p) ==
    /\ frame[p].pc = "sum"
    /\ frame[p].i <= Len(args[p].numbers)
    /\ LET r == Add(frame[p].acc, args[p].numbers[1])
       IN  IF r.raised
           THEN /\ ret' = [ret EXCEPT ![p] = Raised]
                /\ frame' = [frame EXCEPT ![p] = IdleFrame]
                /\ args' = args
           ELSE /\ frame' = [frame EXCEPT ![p].acc = r.val]
                /\ args' = [args EXCEPT ![p].numbers = Tail(args[p].numbers)]
                /\ ret' = ret
    /\ UNCHANGED <<runAs, stdout, mainPc>>

\* sum's loop: result = result + item; an exception leaves the function
SumStep(p) ==
    /\ frame[p].pc = "sum"
    /\ frame[p].i <= Len(args[p].numbers)
    /\ LET r == Add(frame[p].acc, args[p].numbers[frame[p].i])
       IN  IF r.raised
           THEN /\ ret' = [ret EXCEPT ![p] = Raised]
                /\ frame' = [frame EXCEPT ![p] = IdleFrame]
           ELSE /\ frame' = [frame EXCEPT ![p].acc = r.val, ![p].i = frame[p].i + 1]
                /\ ret' = ret
    /\ UNCHANGED <<runAs, stdout, mainPc, args>>

\* line 48: return the total
SumReturn(p) ==
    /\ frame[p].pc = "sum"
    /\ frame[p].i > Len(args[p].numbers)
    /\ ret' = [ret EXCEPT ![p] = NumRet(frame[p].acc)]
    /\ frame' = [frame EXCEPT ![p] = IdleFrame]
    /\ UNCHANGED <<runAs, stdout, mainPc, args>>

Body(p) ==
    \/ GreetTest(p)
    \/ GreetDefault(p)
    \/ GreetReturn(p)
    \/ SumBegin(p)
    \/ SumStep(p)
    \/ SumReturn(p)

---------------------------------------------------------------------------
(* A caller of the imported module *)

CallGreet(c, names, gargs) ==
    /\ runAs = "utils"
    /\ args[c].fn = "none"
    /\ \E name \in names, garg \in gargs :
          /\ args' = [args EXCEPT ![c] = GreetArgs(name, garg)]
          /\ frame' = [frame EXCEPT ![c] = GreetFrame(name, garg)]
    /\ UNCHANGED <<runAs, stdout, mainPc, ret>>

CallSum(c, seqs) ==
    /\ runAs = "utils"
    /\ args[c].fn = "none"
    /\ \E numbers \in seqs :
          /\ args' = [args EXCEPT ![c] = SumArgs(numbers)]
          /\ frame' = [frame EXCEPT ![c] = SumFrame]
    /\ UNCHANGED <<runAs, stdout, mainPc, ret>>

\* the caller calls once more with the arguments it still holds
CallAgain(c) ==
    /\ runAs = "utils"
    /\ frame[c].pc = "idle"
    /\ ret[c].kind # "none"
    /\ frame' = [frame EXCEPT ![c] = FrameFor(args[c])]
    /\ UNCHANGED <<runAs, stdout, mainPc, args, ret>>

---------------------------------------------------------------------------
(* main *)

Developer == <<"D", "e", "v", "e", "l", "o", "p", "e", "r">>
SampleNumbers == <<PyInt(1), PyInt(2), PyInt(3), PyInt(4), PyInt(5)>>
SumLabel ==
    <<"S", "u", "m", " ", "o", "f", " ", "[", "1", ",", " ", "2", ",", " ",
      "3", ",", " ", "4", ",", " ", "5", "]", ":", " ">>

\* line 53: greet_user("Developer")
MainCallGreet ==
    /\ runAs = "__main__"
    /\ mainPc = "line53"
    /\ args' = [args EXCEPT ![MainProc] = GreetArgs(Developer, Omitted)]
    /\ frame' = [frame EXCEPT ![MainProc] = GreetFrame(Developer, Omitted)]
    /\ mainPc' = "line53_print"
    /\ UNCHANGED <<runAs, stdout, ret>>

\* line 53: print(...)
MainPrintGreet ==
    /\ mainPc = "line53_print"
    /\ frame[MainProc].pc = "idle"
    /\ ret[MainProc].kind = "text"
    /\ stdout' = Append(stdout, ret[MainProc].text)
    /\ mainPc' = "line54"
    /\ UNCHANGED <<runAs, args, frame, ret>>

\* line 54: calculate_sum([1, 2, 3, 4, 5])
MainCallSum ==
    /\ mainPc = "line54"
    /\ args' = [args EXCEPT ![MainProc] = SumArgs(SampleNumbers)]
    /\ frame' = [frame EXCEPT ![MainProc] = SumFrame]
    /\ ret' = [ret EXCEPT ![MainProc] = NoRet]
    /\ mainPc' = "line54_print"
    /\ UNCHANGED <<runAs, stdout>>

\* mutant: the sum's line is written above the greeting
MainPrintSumFirst ==
    /\ mainPc = "line54_print"
    /\ frame[MainProc].pc = "idle"
    /\ ret[MainProc].kind = "number"
    /\ stdout' = <<SumLabel \o NumStr(ret[MainProc].num)>> \o stdout
    /\ mainPc' = "done"
    /\ UNCHANGED <<runAs, args, frame, ret>>

\* line 54: print(f"Sum of [1, 2, 3, 4, 5]: {...}"), and main returns
MainPrintSum ==
    /\ mainPc = "line54_print"
    /\ frame[MainProc].pc = "idle"
    /\ ret[MainProc].kind = "number"
    /\ stdout' = Append(stdout, SumLabel \o NumStr(ret[MainProc].num))
    /\ mainPc' = "done"
    /\ UNCHANGED <<runAs, args, frame, ret>>

Main ==
    \/ MainCallGreet
    \/ MainPrintGreet
    \/ MainCallSum
    \/ MainPrintSum
    \/ Body(MainProc)

---------------------------------------------------------------------------
(* Specifications *)

\* line 57: __name__ is "__main__" for the script and "utils" for the import
Init ==
    /\ runAs \in {"__main__", "utils"}
    /\ stdout = <<>>
    /\ mainPc = "line53"
    /\ args = [p \in Procs |-> NoArgs]
    /\ frame = [p \in Procs |-> IdleFrame]
    /\ ret = [p \in Procs |-> NoRet]

\* the script, or one caller of the imported module
Next ==
    \/ Main
    \/ CallGreet(1, Names, GreetingArgs)
    \/ CallSum(1, NumberSeqs)
    \/ CallAgain(1)
    \/ Body(1)

Spec == Init /\ [][Next]_vars

\* the imported module with concurrent callers
InitConc == Init /\ runAs = "utils"

NextConc ==
    \E c \in Callers :
        \/ CallGreet(c, ConcNames, ConcGreetingArgs)
        \/ CallSum(c, ConcNumberSeqs)
        \/ CallAgain(c)
        \/ Body(c)

SpecConc == InitConc /\ [][NextConc]_vars

\* the script is one thread that runs each statement of main in turn
FairSpec == Spec /\ WF_vars(Main)

---------------------------------------------------------------------------
(* Properties *)

GreetDone(p) == args[p].fn = "greet_user" /\ ret[p].kind # "none"
SumDone(p) == args[p].fn = "calculate_sum" /\ ret[p].kind # "none"
Absent(garg) == ~garg.passed \/ ~garg.some

AllInts(numbers) == \A k \in 1 .. Len(numbers) : numbers[k].type = "int"
IntValue(x) == x.h \div 2

\* zero, then the elements added one by one from the left
RECURSIVE LeftTotal(_)
LeftTotal(numbers) ==
    IF numbers = <<>> THEN 0
    ELSE LeftTotal(SubSeq(numbers, 1, Len(numbers) - 1))
         + IntValue(numbers[Len(numbers)])

\* C1: with the greeting word absent (omitted, or passed as None) greet_user
\* returns "Hello, " + name + "!", for the empty name "Hello, !"; the omitted
\* and the explicit-None call of one name return the same text.
C1_AbsentGreetingIsHello ==
    \A p \in Procs :
        GreetDone(p) /\ Absent(args[p].greeting) =>
            /\ ret[p].kind = "text"
            /\ ret[p].text
                 = <<"H", "e", "l", "l", "o", ",", " ">> \o args[p].name \o <<"!">>
            /\ ret[p] = Alone(GreetArgs(args[p].name, Omitted))
            /\ ret[p] = Alone(GreetArgs(args[p].name, Passed(None)))
            /\ args[p].name = <<>> =>
                 ret[p].text = <<"H", "e", "l", "l", "o", ",", " ", "!">>

C1_Witness ==
    \E p \in Callers :
        /\ GreetDone(p)
        /\ args[p].greeting = Omitted
        /\ args[p].name = <<>>
        /\ ret[p].text = <<"H", "e", "l", "l", "o", ",", " ", "!">>

\* C2: with a greeting word provided greet_user returns word + ", " + name + "!":
\* both texts verbatim (blanks and case kept), ", " between them, one "!"
\* at the end.
C2_ProvidedGreetingVerbatim ==
    \A p \in Procs :
        GreetDone(p) /\ ~Absent(args[p].greeting) =>
            LET word == args[p].greeting.text
                name == args[p].name
                out == ret[p].text
            IN  /\ ret[p].kind = "text"
                /\ Len(out) = Len(word) + Len(name) + 3
                /\ SubSeq(out, 1, Len(word)) = word
                /\ out[Len(word) + 1] = ","
                /\ out[Len(word) + 2] = " "
                /\ SubSeq(out, Len(word) + 3, Len(out) - 1) = name
                /\ out[Len(out)] = "!"

C2_Witness ==
    \E p \in Callers :
        /\ GreetDone(p)
        /\ args[p].greeting = Passed(Some(<<"a", " ">>))
        /\ args[p].name = <<" ", "B">>
        /\ ret[p].text = <<"a", " ", ",", " ", " ", "B", "!">>

\* C3: "Hello" is substituted exactly when the greeting word is None: line 28
\* runs only for an absent word, a provided word (the empty text too) reaches
\* the formatting unchanged, and greet_user(name, "") returns ", " + name + "!".
C3_DefaultIffNone ==
    \A p \in Procs :
        /\ frame[p].pc = "line28" => Absent(args[p].greeting)
        /\ frame[p].pc = "line29" =>
              frame[p].greeting
                = IF Absent(args[p].greeting)
                  THEN Some(<<"H", "e", "l", "l", "o">>)
                  ELSE Some(args[p].greeting.text)
        /\ GreetDone(p) /\ args[p].greeting = Passed(Some(<<>>)) =>
              /\ ret[p].text = <<",", " ">> \o args[p].name \o <<"!">>
              /\ ret[p].text
                   # <<"H", "e", "l", "l", "o", ",", " ">> \o args[p].name \o <<"!">>

C3_Witness ==
    \E p \in Callers :
        /\ GreetDone(p)
        /\ args[p].greeting = Passed(Some(<<>>))
        /\ args[p].name = <<"a">>
        /\ ret[p].text = <<",", " ", "a", "!">>

\* C4: for a sequence of integers calculate_sum returns the value reached by
\* starting from zero and adding the elements from the left; zero for the empty
\* sequence, the element itself for a one-element sequence.
C4_SumOfIntegers ==
    \A p \in Procs :
        SumDone(p) /\ AllInts(args[p].numbers) =>
            /\ ret[p].kind = "number"
            /\ ret[p].num.cls = "finite"
            /\ ret[p].num.h = 2 * LeftTotal(args[p].numbers)
            /\ args[p].numbers = <<>> => ret[p].num.h = 0
            /\ Len(args[p].numbers) = 1 => ret[p].num.h = args[p].numbers[1].h

C4_Witness ==
    \E p \in Callers :
        /\ SumDone(p)
        /\ frame[p].pc = "idle"
        /\ args[p].numbers = <<PyInt(3), PyInt(-2), PyInt(3)>>
        /\ ret[p].num.h = 8

\* C5: calculate_sum returns a floating-point value for every input, the empty
\* sequence and the all-integer sequences included.
C5_ReturnsFloat ==
    \A p \in Procs :
        SumDone(p) /\ ret[p].kind = "number" => ret[p].num.type = "float"

\* the rearrangements of a sequence
PermsOf(numbers) ==
    {[k \in 1 .. Len(numbers) |-> numbers[f[k]]] :
        f \in Permutations(1 .. Len(numbers))}

\* C6: for a sequence of integers calculate_sum returns the same value for every
\* rearrangement of it, and the value for a concatenation is the sum of the
\* values for its two parts.
C6_OrderIndependent ==
    \A p \in Procs :
        SumDone(p) /\ AllInts(args[p].numbers) =>
            /\ \A t \in PermsOf(args[p].numbers) : Alone(SumArgs(t)) = ret[p]
            /\ \A k \in 0 .. Len(args[p].numbers) :
                  LET left == calculate_sum(SubSeq(args[p].numbers, 1, k))
                      right == calculate_sum(
                                   SubSeq(args[p].numbers, k + 1, Len(args[p].numbers)))
                  IN  /\ ~left.raised
                      /\ ~right.raised
                      /\ ret[p].kind = "number"
                      /\ ret[p].num.h = left.val.h + right.val.h

C6_Witness ==
    \E p \in Callers :
        /\ SumDone(p)
        /\ frame[p].pc = "idle"
        /\ args[p].numbers = <<PyInt(1), PyInt(-2), PyInt(3)>>
        /\ ret[p] = Alone(SumArgs(<<PyInt(3), PyInt(1), PyInt(-2)>>))
        /\ ret[p].num.h = 4

IntTooLargeForFloat(numbers) ==
    \E f \in 1 .. Len(numbers) :
        /\ numbers[f].type = "float"
        /\ AllInts(SubSeq(numbers, 1, f - 1))
        /\ \/ Abs(LeftTotal(SubSeq(numbers, 1, f - 1))) > FloatMax
           \/ \E j \in f + 1 .. Len(numbers) :
                 numbers[j].type = "int" /\ Abs(IntValue(numbers[j])) > FloatMax

C8_ConcurrentAsAlone ==
    \A c \in Callers : ret[c].kind # "none" => ret[c] = Alone(args[c])

C8_Witness ==
    /\ frame[1].pc = "line29"
    /\ args[1].greeting = Passed(Some(<<"B">>))
    /\ ret[1].kind = "text"
    /\ frame[2].pc = "line29"
    /\ args[2].greeting = Omitted
    /\ ret[2] = Alone(args[2])

\* C9: a call has no side effect: the steps of the function leave the caller's
\* arguments as they are (the list and its order, the greeting the caller
\* passed), they write nothing to standard output, and a call repeated with
\* the same arguments returns the result of the first.
C9_NoSideEffects ==
    [][\A p \in Procs :
          /\ frame[p].pc # "idle" => args'[p] = args[p]
          /\ frame'[p] # frame[p] => stdout' = stdout
          /\ ret[p].kind # "none" /\ args'[p] = args[p] => ret'[p] = ret[p]]_vars

C9_Witness ==
    \E p \in Callers :
        /\ GreetDone(p)
        /\ args[p].greeting = Passed(None)
        /\ frame[p].pc = "line29"
        /\ frame[p].greeting = Some(Hello)
        /\ stdout = <<>>

ExpectedOutput ==
    << <<"H", "e", "l", "l", "o", ",", " ", "D", "e", "v", "e", "l", "o", "p", "e", "r", "!">>,
       <<"S", "u", "m", " ", "o", "f", " ", "[", "1", ",", " ", "2", ",", " ",
         "3", ",", " ", "4", ",", " ", "5", "]", ":", " ", "1", "5">> >>

\* what main has written at each of its lines: a prefix of the two lines
C10_OutputSoFar ==
    runAs = "__main__" =>
        /\ Len(stdout) <= 2
        /\ stdout = SubSeq(ExpectedOutput, 1, Len(stdout))
        /\ mainPc \in {"line53", "line53_print"} => stdout = <<>>
        /\ mainPc \in {"line54", "line54_print"} => Len(stdout) = 1
        /\ mainPc = "done" => stdout = ExpectedOutput /\ ~ENABLED Next

\* C10: main writes exactly two lines and ends: "Hello, Developer!" first, the
\* line with the sum 15 of [1, 2, 3, 4, 5] only after it, and nothing else at
\* any time.
C10_MainOutput ==
    /\ []C10_OutputSoFar
    /\ (runAs = "__main__") ~> (mainPc = "done" /\ stdout = ExpectedOutput)

C10_Witness ==
    /\ runAs = "__main__"
    /\ mainPc = "done"
    /\ stdout = ExpectedOutput

====
